---- MODULE Spec2Model ----
(***************************************************************************)
(* Model of the assistant bot in agent.py: validated fields, Record,       *)
(* AddressBook with the upcoming-birthday query, the command handlers      *)
(* wrapped by input_error, and the session loop of main().                 *)
(*                                                                         *)
(* Text is modelled as a sequence of one-character strings, so that        *)
(* strip(), split(), lower(), title(), isdigit(), strptime() and           *)
(* strftime() are computed character by character.  An optional value      *)
(* (None or an object) is a sequence of length 0 or 1.                     *)
(***************************************************************************)
EXTENDS Integers, Sequences, FiniteSets, TLC

VARIABLES
    data,      \* AddressBook.data: insertion-ordered sequence of [key, rec]
    pc,        \* position of main(): "running", "exited", "crashed"
    line,      \* the input line (or API call) handled by the last step
    out,       \* the text shown for the last step
    saved,     \* the ledger handed to save_data, as an optional value
    today,     \* the reference date read by get_upcoming_birthdays
    upcoming,  \* outcome of the last get_upcoming_birthdays call
    hist,      \* history: the add commands issued while nothing else was
    raw,       \* input handed to the Phone constructor
    made       \* outcome of the Phone constructor

vars == <<data, pc, line, out, saved, today, upcoming, hist, raw, made>>

----------------------------------------------------------------------------
(* Bounds of the model *)

\* phones one record may hold before the model stops adding more
MaxPhones == 2
\* records in a ledger handed to the birthday query
MaxRecords == 2
\* number of consecutive reference dates explored from each start date
TodaySpan == 20
\* whitespace characters put around a phone constructor input
MaxPad == 1

----------------------------------------------------------------------------
(* Characters and text *)

LowerCase ==
    <<"a","b","c","d","e","f","g","h","i","j","k","l","m",
      "n","o","p","q","r","s","t","u","v","w","x","y","z">>

UpperCase ==
    <<"A","B","C","D","E","F","G","H","I","J","K","L","M",
      "N","O","P","Q","R","S","T","U","V","W","X","Y","Z">>

AsciiDigits ==
    <<"0","1","2","3","4","5","6","7","8","9">>

\* U+0663 ARABIC-INDIC DIGIT THREE, one character for which str.isdigit()
\* is true although it is not an ASCII digit
ArabicIndicThree == "U+0663"

Range(s) == {s[i] : i \in 1..Len(s)}

IndexOf(c, s) == CHOOSE i \in 1..Len(s) : s[i] = c

\* str.isspace() of one character, as used by strip() and split()
IsSpace(c) == c \in {" ", "\t", "\n"}

\* str.isdigit() of one character
IsDigit(c) == c \in Range(AsciiDigits) \cup {ArabicIndicThree}

\* str.isdigit() of a string: non-empty and every character is a digit
isdigit(s) == Len(s) > 0 /\ \A i \in 1..Len(s) : IsDigit(s[i])

LowerChar(c) == IF c \in Range(UpperCase) THEN LowerCase[IndexOf(c, UpperCase)] ELSE c

UpperChar(c) == IF c \in Range(LowerCase) THEN UpperCase[IndexOf(c, LowerCase)] ELSE c

IsCased(c) == c \in Range(LowerCase) \cup Range(UpperCase)

\* str.lower()
lower(s) == [i \in 1..Len(s) |-> LowerChar(s[i])]

\* str.title(): a cased character is upper-cased when it follows an uncased
\* one (or starts the string) and lower-cased otherwise
title(s) ==
    [i \in 1..Len(s) |->
        IF i = 1 \/ ~IsCased(s[i-1]) THEN UpperChar(s[i]) ELSE LowerChar(s[i])]

RECURSIVE lstrip(_)
lstrip(s) == IF s # <<>> /\ IsSpace(Head(s)) THEN lstrip(Tail(s)) ELSE s

RECURSIVE rstrip(_)
rstrip(s) ==
    IF s # <<>> /\ IsSpace(s[Len(s)]) THEN rstrip(SubSeq(s, 1, Len(s) - 1)) ELSE s

\* str.strip()
strip(s) == rstrip(lstrip(s))

\* str.split() with no separator: the maximal runs of non-whitespace
RECURSIVE SplitFrom(_, _, _)
SplitFrom(s, cur, acc) ==
    IF s = <<>>
    THEN IF cur = <<>> THEN acc ELSE Append(acc, cur)
    ELSE IF IsSpace(Head(s))
         THEN SplitFrom(Tail(s), <<>>, IF cur = <<>> THEN acc ELSE Append(acc, cur))
         ELSE SplitFrom(Tail(s), Append(cur, Head(s)), acc)

split(s) == SplitFrom(s, <<>>, <<>>)

\* sep.join(items)
RECURSIVE join(_, _)
join(sep, items) ==
    IF items = <<>> THEN <<>>
    ELSE IF Len(items) = 1 THEN items[1]
    ELSE items[1] \o sep \o join(sep, Tail(items))

\* value of a run of ASCII digits, as int() reads it
RECURSIVE IntOf(_)
IntOf(s) ==
    IF s = <<>> THEN 0
    ELSE 10 * IntOf(SubSeq(s, 1, Len(s) - 1)) + (IndexOf(s[Len(s)], AsciiDigits) - 1)

\* decimal rendering of a natural number padded with zeros to width w
RECURSIVE Digits(_, _)
Digits(n, w) ==
    IF w = 0 THEN <<>> ELSE Append(Digits(n \div 10, w - 1), AsciiDigits[(n % 10) + 1])

\* str(n) for a natural number
RECURSIVE str(_)
str(n) == IF n < 10 THEN <<AsciiDigits[n + 1]>> ELSE Append(str(n \div 10), AsciiDigits[(n % 10) + 1])

----------------------------------------------------------------------------
(* Literals of the program *)

\* 'close'  (agent.py:312)
CmdClose ==
    <<"c","l","o","s","e">>

\* 'exit'  (agent.py:312)
CmdExit ==
    <<"e","x","i","t">>

\* 'hello'  (agent.py:317)
CmdHello ==
    <<"h","e","l","l","o">>

\* 'add'  (agent.py:320)
CmdAdd ==
    <<"a","d","d">>

\* 'change'  (agent.py:323)
CmdChange ==
    <<"c","h","a","n","g","e">>

\* 'phone'  (agent.py:326)
CmdPhone ==
    <<"p","h","o","n","e">>

\* 'all'  (agent.py:329)
CmdAll ==
    <<"a","l","l">>

\* 'add-birthday'  (agent.py:332)
CmdAddBirthday ==
    <<"a","d","d","-","b","i","r","t","h","d","a","y">>

\* 'show-birthday'  (agent.py:335)
CmdShowBirthday ==
    <<"s","h","o","w","-","b","i","r","t","h","d","a","y">>

\* 'birthdays'  (agent.py:338)
CmdBirthdays ==
    <<"b","i","r","t","h","d","a","y","s">>

\* 'Incorrect phone number format.'  (agent.py:24)
MsgIncorrectPhone ==
    <<"I","n","c","o","r","r","e","c","t"," ","p","h","o","n","e"," ","n","u","m","b","e","r"," ","f","o","r","m","a","t",".">>

\* 'Invalid date format. Use DD.MM.YYYY'  (agent.py:40)
MsgInvalidDate ==
    <<"I","n","v","a","l","i","d"," ","d","a","t","e"," ","f","o","r","m","a","t","."," ","U","s","e"," ","D","D",".","M","M",".","Y","Y","Y","Y">>

\* 'day is out of range for month'  (agent.py:115)
MsgDayOutOfRange ==
    <<"d","a","y"," ","i","s"," ","o","u","t"," ","o","f"," ","r","a","n","g","e"," ","f","o","r"," ","m","o","n","t","h">>

\* 'Contact not found.'  (agent.py:172)
MsgContactNotFound ==
    <<"C","o","n","t","a","c","t"," ","n","o","t"," ","f","o","u","n","d",".">>

\* 'Invalid command format. Please provide all required arguments.'  (agent.py:174)
MsgInvalidFormat ==
    <<"I","n","v","a","l","i","d"," ","c","o","m","m","a","n","d"," ","f","o","r","m","a","t","."," ","P","l","e","a","s","e"," ","p","r","o","v","i","d","e"," ","a","l","l"," ","r","e","q","u","i","r","e","d"," ","a","r","g","u","m","e","n","t","s",".">>

\* 'An error occurred: '  (agent.py:176)
MsgErrorOccurred ==
    <<"A","n"," ","e","r","r","o","r"," ","o","c","c","u","r","r","e","d",":"," ">>

\* 'not enough values to unpack (expected at least 1, got 0)'  (agent.py:183)
MsgUnpackOne ==
    <<"n","o","t"," ","e","n","o","u","g","h"," ","v","a","l","u","e","s"," ","t","o"," ","u","n","p","a","c","k"," ","(","e","x","p","e","c","t","e","d"," ","a","t"," ","l","e","a","s","t"," ","1",","," ","g","o","t"," ","0",")">>

\* 'not enough values to unpack (expected at least 2, got '  (agent.py:191)
MsgUnpackTwo ==
    <<"n","o","t"," ","e","n","o","u","g","h"," ","v","a","l","u","e","s"," ","t","o"," ","u","n","p","a","c","k"," ","(","e","x","p","e","c","t","e","d"," ","a","t"," ","l","e","a","s","t"," ","2",","," ","g","o","t"," ">>

\* ')'  (agent.py:191)
MsgUnpackEnd ==
    <<")">>

\* 'Contact updated.'  (agent.py:193)
MsgContactUpdated ==
    <<"C","o","n","t","a","c","t"," ","u","p","d","a","t","e","d",".">>

\* 'Contact added.'  (agent.py:197)
MsgContactAdded ==
    <<"C","o","n","t","a","c","t"," ","a","d","d","e","d",".">>

\* 'Please provide name, old phone, and new phone.'  (agent.py:207)
MsgProvideChange ==
    <<"P","l","e","a","s","e"," ","p","r","o","v","i","d","e"," ","n","a","m","e",","," ","o","l","d"," ","p","h","o","n","e",","," ","a","n","d"," ","n","e","w"," ","p","h","o","n","e",".">>

\* 'Phone '  (agent.py:217)
MsgPhone ==
    <<"P","h","o","n","e"," ">>

\* ' not found for contact '  (agent.py:217)
MsgNotFoundFor ==
    <<" ","n","o","t"," ","f","o","u","n","d"," ","f","o","r"," ","c","o","n","t","a","c","t"," ">>

\* '.'  (agent.py:217)
MsgDot ==
    <<".">>

\* 'Phone number updated.'  (agent.py:220)
MsgPhoneUpdated ==
    <<"P","h","o","n","e"," ","n","u","m","b","e","r"," ","u","p","d","a","t","e","d",".">>

\* 'Please provide a name.'  (agent.py:227)
MsgProvideName ==
    <<"P","l","e","a","s","e"," ","p","r","o","v","i","d","e"," ","a"," ","n","a","m","e",".">>

\* ' has no phone numbers.'  (agent.py:236)
MsgNoPhones ==
    <<" ","h","a","s"," ","n","o"," ","p","h","o","n","e"," ","n","u","m","b","e","r","s",".">>

\* '; '  (agent.py:238)
MsgSemi ==
    <<";"," ">>

\* ': '  (agent.py:239)
MsgColon ==
    <<":"," ">>

\* 'Address book is empty.'  (agent.py:246)
MsgBookEmpty ==
    <<"A","d","d","r","e","s","s"," ","b","o","o","k"," ","i","s"," ","e","m","p","t","y",".">>

\* '\n'  (agent.py:251)
MsgNewline ==
    <<"\n">>

\* 'Contact name: '  (agent.py:76)
MsgContactName ==
    <<"C","o","n","t","a","c","t"," ","n","a","m","e",":"," ">>

\* ', phones: '  (agent.py:76)
MsgPhones ==
    <<","," ","p","h","o","n","e","s",":"," ">>

\* ', birthday: '  (agent.py:75)
MsgBirthdaySuffix ==
    <<","," ","b","i","r","t","h","d","a","y",":"," ">>

\* 'Please provide name and birthday (DD.MM.YYYY).'  (agent.py:258)
MsgProvideBirthday ==
    <<"P","l","e","a","s","e"," ","p","r","o","v","i","d","e"," ","n","a","m","e"," ","a","n","d"," ","b","i","r","t","h","d","a","y"," ","(","D","D",".","M","M",".","Y","Y","Y","Y",")",".">>

\* 'Birthday added for '  (agent.py:267)
MsgBirthdayAdded ==
    <<"B","i","r","t","h","d","a","y"," ","a","d","d","e","d"," ","f","o","r"," ">>

\* ' has no birthday set.'  (agent.py:283)
MsgNoBirthday ==
    <<" ","h","a","s"," ","n","o"," ","b","i","r","t","h","d","a","y"," ","s","e","t",".">>

\* "'s birthday: "  (agent.py:285)
MsgsBirthday ==
    <<"'","s"," ","b","i","r","t","h","d","a","y",":"," ">>

\* 'No upcoming birthdays in the next 7 days.'  (agent.py:294)
MsgNoUpcoming ==
    <<"N","o"," ","u","p","c","o","m","i","n","g"," ","b","i","r","t","h","d","a","y","s"," ","i","n"," ","t","h","e"," ","n","e","x","t"," ","7"," ","d","a","y","s",".">>

\* 'Upcoming birthdays:'  (agent.py:296)
MsgUpcoming ==
    <<"U","p","c","o","m","i","n","g"," ","b","i","r","t","h","d","a","y","s",":">>

\* 'Welcome to the assistant bot!'  (agent.py:305)
MsgWelcome ==
    <<"W","e","l","c","o","m","e"," ","t","o"," ","t","h","e"," ","a","s","s","i","s","t","a","n","t"," ","b","o","t","!">>

\* 'Good bye!'  (agent.py:314)
MsgGoodBye ==
    <<"G","o","o","d"," ","b","y","e","!">>

\* 'How can I help you?'  (agent.py:318)
MsgHowCanIHelp ==
    <<"H","o","w"," ","c","a","n"," ","I"," ","h","e","l","p"," ","y","o","u","?">>

\* 'Invalid command.'  (agent.py:342)
MsgInvalidCommand ==
    <<"I","n","v","a","l","i","d"," ","c","o","m","m","a","n","d",".">>

\* '\nGood bye!'  (agent.py:345)
MsgGoodByeNl ==
    <<"\n","G","o","o","d"," ","b","y","e","!">>

----------------------------------------------------------------------------
(* Calendar dates: datetime.date *)

Date(y, m, d) == [y |-> y, m |-> m, d |-> d]

IsLeap(y) == y % 4 = 0 /\ (y % 100 # 0 \/ y % 400 = 0)

DaysInMonth(y, m) ==
    IF m = 2 THEN (IF IsLeap(y) THEN 29 ELSE 28)
    ELSE IF m \in {4, 6, 9, 11} THEN 30 ELSE 31

RECURSIVE DaysBeforeMonth(_, _)
DaysBeforeMonth(y, m) ==
    IF m = 1 THEN 0 ELSE DaysBeforeMonth(y, m - 1) + DaysInMonth(y, m - 1)

DaysBeforeYear(y) ==
    (y - 1) * 365 + ((y - 1) \div 4) - ((y - 1) \div 100) + ((y - 1) \div 400)

\* date.toordinal(): 1 for 0001-01-01
Ordinal(dt) == DaysBeforeYear(dt.y) + DaysBeforeMonth(dt.y, dt.m) + dt.d

\* date.weekday(): Monday = 0 ... Sunday = 6
weekday(dt) == (Ordinal(dt) + 6) % 7

NextDay(dt) ==
    IF dt.d < DaysInMonth(dt.y, dt.m) THEN Date(dt.y, dt.m, dt.d + 1)
    ELSE IF dt.m < 12 THEN Date(dt.y, dt.m + 1, 1)
    ELSE Date(dt.y + 1, 1, 1)

\* date + timedelta(days=n), n >= 0
RECURSIVE AddDays(_, _)
AddDays(dt, n) == IF n = 0 THEN dt ELSE AddDays(NextDay(dt), n - 1)

\* date < date
DateLess(a, b) == Ordinal(a) < Ordinal(b)

\* date.replace(year=y): an optional date, absent when the day does not
\* exist in year y (ValueError "day is out of range for month")
replace_year(dt, y) ==
    IF dt.d <= DaysInMonth(y, dt.m) THEN <<Date(y, dt.m, dt.d)>> ELSE <<>>

\* strftime("%d.%m.%Y")
strftime(dt) == Digits(dt.d, 2) \o <<".">> \o Digits(dt.m, 2) \o <<".">> \o Digits(dt.y, 4)

\* the fields of a text separated by "."
RECURSIVE Fields(_, _, _)
Fields(s, cur, acc) ==
    IF s = <<>> THEN Append(acc, cur)
    ELSE IF Head(s) = "." THEN Fields(Tail(s), <<>>, Append(acc, cur))
    ELSE Fields(Tail(s), Append(cur, Head(s)), acc)

AllAscii(s) == \A i \in 1..Len(s) : s[i] \in Range(AsciiDigits)

\* datetime.strptime(s, "%d.%m.%Y"): an optional date, absent on ValueError.
\* %d is one or two digits 1..31, %m one or two digits 1..12, %Y four
\* digits; the date must exist in the calendar.
strptime(s) ==
    LET f == Fields(s, <<>>, <<>>) IN
    IF Len(f) # 3 THEN <<>>
    ELSE IF ~(Len(f[1]) \in {1, 2} /\ AllAscii(f[1])) THEN <<>>
    ELSE IF ~(Len(f[2]) \in {1, 2} /\ AllAscii(f[2])) THEN <<>>
    ELSE IF ~(Len(f[3]) = 4 /\ AllAscii(f[3])) THEN <<>>
    ELSE LET d == IntOf(f[1])
             m == IntOf(f[2])
             y == IntOf(f[3])
         IN IF m \in 1..12 /\ y >= 1 /\ d >= 1 /\ d <= DaysInMonth(y, m)
            THEN <<Date(y, m, d)>> ELSE <<>>

----------------------------------------------------------------------------
(* Outcomes: a call either returns a value or raises an exception *)

Return(v) == [raised |-> "", value |-> v]

Raise(kind, msg) == [raised |-> kind, value |-> msg]

----------------------------------------------------------------------------
(* Validated fields *)

\* Phone.__init__: the stored value, or ValueError
Phone(value) ==
    LET v == strip(value) IN
    IF ~(Len(v) = 10 /\ isdigit(v))
    THEN Raise("ValueError", MsgIncorrectPhone)
    ELSE Return(v)

\* Birthday.__init__ for a text argument: the stored date, or ValueError
Birthday(value) ==
    LET s == strip(value) IN
    IF s = <<>> THEN Raise("ValueError", MsgInvalidDate)
    ELSE IF strptime(s) = <<>> THEN Raise("ValueError", MsgInvalidDate)
    ELSE Return(strptime(s)[1])

----------------------------------------------------------------------------
(* Record *)

\* Record.__init__
Record(name) == [name |-> name, phones |-> <<>>, birthday |-> <<>>]

\* Record.add_phone: the record after the call, or the exception
add_phone(rec, phone) ==
    LET p == Phone(phone) IN
    IF p.raised # "" THEN p
    ELSE Return([rec EXCEPT !.phones = Append(@, p.value)])

\* index of the first phone equal to the argument, 0 when there is none
FirstPhone(rec, phone) ==
    IF \E i \in 1..Len(rec.phones) : rec.phones[i] = phone
    THEN CHOOSE i \in 1..Len(rec.phones) :
            /\ rec.phones[i] = phone
            /\ \A j \in 1..(i - 1) : rec.phones[j] # phone
    ELSE 0

\* Record.find_phone: the optional first phone equal to the argument
find_phone(rec, phone) ==
    IF FirstPhone(rec, phone) = 0 THEN <<>> ELSE <<rec.phones[FirstPhone(rec, phone)]>>

\* Record.edit_phone: replaces the first match by the validated new phone;
\* without a match nothing happens and the new phone is not validated
edit_phone(rec, old_phone, new_phone) ==
    LET i == FirstPhone(rec, old_phone) IN
    IF i = 0 THEN Return(rec)
    ELSE LET p == Phone(new_phone) IN
         IF p.raised # "" THEN p
         ELSE Return([rec EXCEPT !.phones[i] = p.value])

\* Record.add_birthday
add_birthday_rec(rec, birthday) ==
    LET b == Birthday(birthday) IN
    IF b.raised # "" THEN b
    ELSE Return([rec EXCEPT !.birthday = <<b.value>>])

\* Record.__str__
RecordStr(rec) ==
    MsgContactName \o rec.name \o MsgPhones \o join(MsgSemi, rec.phones)
        \o (IF rec.birthday # <<>> THEN MsgBirthdaySuffix \o strftime(rec.birthday[1]) ELSE <<>>)

----------------------------------------------------------------------------
(* AddressBook: the dict keeps its keys in insertion order *)

Keys(book) == {book[i].key : i \in 1..Len(book)}

KeyIndex(book, key) == CHOOSE i \in 1..Len(book) : book[i].key = key

\* self.data[key] = rec
DictSet(book, key, rec) ==
    IF key \in Keys(book)
    THEN [book EXCEPT ![KeyIndex(book, key)] = [key |-> key, rec |-> rec]]
    ELSE Append(book, [key |-> key, rec |-> rec])

\* add_record keyed by the display form of the name instead of its raw value
add_record_titled(book, record) == DictSet(book, title(record.name), record)

\* AddressBook.add_record
add_record(book, record) == DictSet(book, record.name, record)

\* AddressBook.find: the optional record under the key
find(book, name) ==
    IF name \in Keys(book) THEN <<book[KeyIndex(book, name)].rec>> ELSE <<>>

\* AddressBook.delete: the ledger after the call, or KeyError
delete(book, name) ==
    IF name \in Keys(book)
    THEN Return(SelectSeq(book, LAMBDA e : e.key # name))
    ELSE Raise("KeyError", name)

\* a change made through a reference to a record object: the ledger holds
\* the same object, so the entry that holds it shows the change
Mutate(book, record, changed) ==
    [i \in 1..Len(book) |->
        IF book[i].rec = record THEN [book[i] EXCEPT !.rec = changed] ELSE book[i]]

\* the loop body with a Saturday moved by one day instead of two
UpcomingOne_SaturdayPlusOne(rec, tdy) ==
    IF rec.birthday = <<>> THEN Return(<<>>)
    ELSE
      LET birthday == rec.birthday[1]
          first == replace_year(birthday, tdy.y)
      IN IF first = <<>> THEN Raise("ValueError", MsgDayOutOfRange)
         ELSE
           LET second == IF DateLess(first[1], tdy)
                         THEN replace_year(first[1], tdy.y + 1)
                         ELSE first
           IN IF second = <<>> THEN Raise("ValueError", MsgDayOutOfRange)
              ELSE
                LET birthday_this_year == second[1]
                    days_until_birthday == Ordinal(birthday_this_year) - Ordinal(tdy)
                    congratulation_date ==
                        IF weekday(birthday_this_year) \in {5, 6}
                        THEN AddDays(birthday_this_year, 1)
                        ELSE birthday_this_year
                IN IF 0 <= days_until_birthday /\ days_until_birthday <= 6
                   THEN Return(<<[name |-> rec.name,
                                  congratulation_date |-> strftime(congratulation_date)]>>)
                   ELSE Return(<<>>)

\* one pass of the loop body of get_upcoming_birthdays for one record:
\* an optional entry, or the ValueError of date.replace
UpcomingOne(rec, tdy) ==
    IF rec.birthday = <<>> THEN Return(<<>>)
    ELSE
      LET birthday == rec.birthday[1]
          first == replace_year(birthday, tdy.y)
      IN IF first = <<>> THEN Raise("ValueError", MsgDayOutOfRange)
         ELSE
           LET second == IF DateLess(first[1], tdy)
                         THEN replace_year(first[1], tdy.y + 1)
                         ELSE first
           IN IF second = <<>> THEN Raise("ValueError", MsgDayOutOfRange)
              ELSE
                LET birthday_this_year == second[1]
                    days_until_birthday == Ordinal(birthday_this_year) - Ordinal(tdy)
                    congratulation_date ==
                        IF weekday(birthday_this_year) = 5
                        THEN AddDays(birthday_this_year, 2)
                        ELSE IF weekday(birthday_this_year) = 6
                        THEN AddDays(birthday_this_year, 1)
                        ELSE birthday_this_year
                IN IF 0 <= days_until_birthday /\ days_until_birthday <= 6
                   THEN Return(<<[name |-> rec.name,
                                  congratulation_date |-> strftime(congratulation_date)]>>)
                   ELSE Return(<<>>)

\* the loop of get_upcoming_birthdays over the records from index i on
RECURSIVE UpcomingFrom(_, _, _, _)
UpcomingFrom(book, tdy, i, acc) ==
    IF i > Len(book) THEN Return(acc)
    ELSE LET one == UpcomingOne(book[i].rec, tdy) IN
         IF one.raised # "" THEN one
         ELSE UpcomingFrom(book, tdy, i + 1, acc \o one.value)

\* AddressBook.get_upcoming_birthdays with today = tdy
get_upcoming_birthdays(book, tdy) == UpcomingFrom(book, tdy, 1, <<>>)

----------------------------------------------------------------------------
(* Command handlers.  A handler body yields the ledger it leaves behind    *)
(* and its outcome; input_error turns the outcome into the text returned.  *)

Body(book, res) == [book |-> book, res |-> res]

\* input_error.inner: the except clauses in order
input_error(body) ==
    [book |-> body.book,
     out  |-> IF body.res.raised = "" THEN body.res.value
              ELSE IF body.res.raised = "ValueError" THEN body.res.value
              ELSE IF body.res.raised = "KeyError" THEN MsgContactNotFound
              ELSE IF body.res.raised = "IndexError" THEN MsgInvalidFormat
              ELSE MsgErrorOccurred \o body.res.value]

\* add_contact that builds and adds a fresh record on every call instead of
\* fetching the existing one first
add_contact_body_readd(args, book) ==
    IF Len(args) < 2
    THEN Body(book, Raise("ValueError", MsgUnpackTwo \o str(Len(args)) \o MsgUnpackEnd))
    ELSE
      LET name == args[1]
          phone == args[2]
          record == Record(name)
          book1 == add_record(book, record)
      IN IF phone # <<>>
         THEN LET r == add_phone(record, phone) IN
              IF r.raised # "" THEN Body(book1, r)
              ELSE Body(Mutate(book1, record, r.value), Return(MsgContactAdded))
         ELSE Body(book1, Return(MsgContactAdded))

\* body of add_contact
add_contact_body(args, book) ==
    IF Len(args) < 2
    THEN Body(book, Raise("ValueError", MsgUnpackTwo \o str(Len(args)) \o MsgUnpackEnd))
    ELSE
      LET name == args[1]
          phone == args[2]
          found == find(book, name)
          record == IF found = <<>> THEN Record(name) ELSE found[1]
          book1 == IF found = <<>> THEN add_record(book, record) ELSE book
          message == IF found = <<>> THEN MsgContactAdded ELSE MsgContactUpdated
      IN IF phone # <<>>
         THEN LET r == add_phone(record, phone) IN
              IF r.raised # "" THEN Body(book1, r)
              ELSE Body(Mutate(book1, record, r.value), Return(message))
         ELSE Body(book1, Return(message))

add_contact(args, book) == input_error(add_contact_body(args, book))

\* change_contact without the find_phone check, relying on edit_phone alone
change_contact_body_nocheck(args, book) ==
    IF Len(args) < 3 THEN Body(book, Return(MsgProvideChange))
    ELSE
      LET name == args[1]
          old_phone == args[2]
          new_phone == args[3]
          found == find(book, name)
      IN IF found = <<>> THEN Body(book, Return(MsgContactNotFound))
         ELSE LET r == edit_phone(found[1], old_phone, new_phone) IN
              IF r.raised # "" THEN Body(book, r)
              ELSE Body(Mutate(book, found[1], r.value), Return(MsgPhoneUpdated))

\* body of change_contact
change_contact_body(args, book) ==
    IF Len(args) < 3 THEN Body(book, Return(MsgProvideChange))
    ELSE
      LET name == args[1]
          old_phone == args[2]
          new_phone == args[3]
          found == find(book, name)
      IN IF found = <<>> THEN Body(book, Return(MsgContactNotFound))
         ELSE IF find_phone(found[1], old_phone) = <<>>
         THEN Body(book, Return(MsgPhone \o old_phone \o MsgNotFoundFor \o name \o MsgDot))
         ELSE LET r == edit_phone(found[1], old_phone, new_phone) IN
              IF r.raised # "" THEN Body(book, r)
              ELSE Body(Mutate(book, found[1], r.value), Return(MsgPhoneUpdated))

change_contact(args, book) == input_error(change_contact_body(args, book))

\* body of show_phone
show_phone_body(args, book) ==
    IF Len(args) < 1 THEN Body(book, Return(MsgProvideName))
    ELSE
      LET name == args[1]
          found == find(book, name)
      IN IF found = <<>> THEN Body(book, Return(MsgContactNotFound))
         ELSE IF found[1].phones = <<>> THEN Body(book, Return(name \o MsgNoPhones))
         ELSE Body(book, Return(name \o MsgColon \o join(MsgSemi, found[1].phones)))

show_phone(args, book) == input_error(show_phone_body(args, book))

\* body of show_all
show_all_body(args, book) ==
    IF book = <<>> THEN Body(book, Return(MsgBookEmpty))
    ELSE Body(book, Return(join(MsgNewline, [i \in 1..Len(book) |-> RecordStr(book[i].rec)])))

show_all(args, book) == input_error(show_all_body(args, book))

\* body of add_birthday
add_birthday_body(args, book) ==
    IF Len(args) < 2 THEN Body(book, Return(MsgProvideBirthday))
    ELSE
      LET name == args[1]
          birthday == args[2]
          found == find(book, name)
      IN IF found = <<>> THEN Body(book, Return(MsgContactNotFound))
         ELSE LET r == add_birthday_rec(found[1], birthday) IN
              IF r.raised # "" THEN Body(book, r)
              ELSE Body(Mutate(book, found[1], r.value), Return(MsgBirthdayAdded \o name \o MsgDot))

add_birthday(args, book) == input_error(add_birthday_body(args, book))

\* body of show_birthday
show_birthday_body(args, book) ==
    IF Len(args) < 1 THEN Body(book, Return(MsgProvideName))
    ELSE
      LET name == args[1]
          found == find(book, name)
      IN IF found = <<>> THEN Body(book, Return(MsgContactNotFound))
         ELSE IF found[1].birthday = <<>> THEN Body(book, Return(name \o MsgNoBirthday))
         ELSE Body(book, Return(name \o MsgsBirthday \o strftime(found[1].birthday[1])))

show_birthday(args, book) == input_error(show_birthday_body(args, book))

\* body of birthdays, the clock reading tdy
birthdays_body(args, book, tdy) ==
    LET up == get_upcoming_birthdays(book, tdy) IN
    IF up.raised # "" THEN Body(book, up)
    ELSE IF up.value = <<>> THEN Body(book, Return(MsgNoUpcoming))
    ELSE Body(book, Return(join(MsgNewline,
            <<MsgUpcoming>> \o [i \in 1..Len(up.value) |->
                up.value[i].name \o MsgColon \o up.value[i].congratulation_date])))

birthdays(args, book, tdy) == input_error(birthdays_body(args, book, tdy))

\* parse_input: the command word followed by the arguments, or the
\* ValueError of unpacking an empty split
parse_input(user_input) ==
    LET toks == split(user_input) IN
    IF toks = <<>> THEN Raise("ValueError", MsgUnpackOne)
    ELSE Return(<<lower(strip(toks[1]))>> \o Tail(toks))

----------------------------------------------------------------------------
(* Inputs explored *)

NameBob == <<"b","o","b">>

NameAl == <<"A","l">>

NameEve == <<"e","v","e">>

Names == {NameBob, NameAl}

PhoneA == <<"0","1","2","3","4","5","6","7","8","9">>

PhoneB == <<"9","8","7","6","5","4","3","2","1","0">>

PhoneShort == <<"1","2","3","4","5">>

ValidPhones == {PhoneA, PhoneB}

PhoneWords == ValidPhones \cup {PhoneShort}

DateLeapDay == <<"2","9",".","0","2",".","2","0","2","0">>

DateMarch == <<"0","2",".","0","3",".","1","9","9","0">>

DateNoSuchDay == <<"3","1",".","0","2",".","2","0","2","0">>

DateWords == {DateLeapDay, DateMarch, DateNoSuchDay}

WordFoo == <<"f","o","o">>

\* argument lists tried with each command word
AddArgs ==
    {<<>>} \cup {<<n>> : n \in Names} \cup {<<n, p>> : n \in Names, p \in PhoneWords}
        \cup {<<NameBob, PhoneA, WordFoo>>}

ChangeArgs ==
    {<<>>, <<NameBob>>, <<NameBob, PhoneA>>}
        \cup {<<n, p, q>> : n \in Names, p \in ValidPhones, q \in PhoneWords}

NameArgs == {<<>>} \cup {<<n>> : n \in Names}

BirthdayArgs == NameArgs \cup {<<n, d>> : n \in Names, d \in DateWords}

LineOf(cmd, args) == join(<<" ">>, <<cmd>> \o args)

Lines ==
    {<<>>, <<" ">>, <<"\t", " ">>}
      \cup {LineOf(CmdAdd, a) : a \in AddArgs}
      \cup {LineOf(CmdChange, a) : a \in ChangeArgs}
      \cup {LineOf(CmdPhone, a) : a \in NameArgs}
      \cup {LineOf(CmdAll, <<>>), LineOf(CmdBirthdays, <<>>), LineOf(CmdHello, <<>>)}
      \cup {LineOf(CmdAddBirthday, a) : a \in BirthdayArgs}
      \cup {LineOf(CmdShowBirthday, a) : a \in NameArgs}
      \cup {LineOf(CmdExit, <<>>), LineOf(CmdClose, <<>>), LineOf(WordFoo, <<NameBob>>)}
      \cup {<<" ">> \o LineOf(<<"A","d","d">>, <<NameAl, PhoneB>>) \o <<" ">>,
            LineOf(<<"E","X","I","T">>, <<>>)}

\* clock readings tried by the birthdays command
SessionTodays == {Date(2023, 2, 25), Date(2024, 2, 26)}

TotalPhones(book) ==
    LET RECURSIVE Sum(_)
        Sum(i) == IF i = 0 THEN 0 ELSE Len(book[i].rec.phones) + Sum(i - 1)
    IN Sum(Len(book))

NotRun == [ran |-> FALSE, res |-> Return(<<>>)]

NotMade == [done |-> FALSE, res |-> Return(<<>>)]

NoHist == [only |-> FALSE, log |-> <<>>]

----------------------------------------------------------------------------
(* The session loop of main() *)

Init ==
    /\ data = <<>>
    /\ pc = "running"
    /\ line = <<>>
    /\ out = MsgWelcome
    /\ saved = <<>>
    /\ today = Date(2024, 1, 1)
    /\ upcoming = NotRun
    /\ hist = [only |-> TRUE, log |-> <<>>]
    /\ raw = <<>>
    /\ made = NotMade

\* parse_input of every line explored
Parsed == [ln \in Lines |-> parse_input(ln)]

Command(ln) == Parsed[ln].value[1]

Args(ln) == Tail(Parsed[ln].value)

Reads(ln, cmds) ==
    /\ pc = "running"
    /\ Parsed[ln].raised = ""
    /\ Command(ln) \in cmds

Reply(ln, r) ==
    /\ TotalPhones(r.book) <= MaxPhones
    /\ data' = r.book
    /\ out' = r.out
    /\ line' = ln
    /\ UNCHANGED <<pc, saved, today, upcoming, raw, made>>

\* parse_input raises outside every try block of main
ReadUnparsable ==
    \E ln \in Lines :
        /\ pc = "running"
        /\ Parsed[ln].raised # ""
        /\ pc' = "crashed"
        /\ line' = ln
        /\ out' = Parsed[ln].value
        /\ hist' = NoHist
        /\ UNCHANGED <<data, saved, today, upcoming, raw, made>>

DoExit ==
    \E ln \in Lines :
        /\ Reads(ln, {CmdClose, CmdExit})
        /\ saved' = <<data>>
        /\ out' = MsgGoodBye
        /\ pc' = "exited"
        /\ line' = ln
        /\ hist' = NoHist
        /\ UNCHANGED <<data, today, upcoming, raw, made>>

DoHello ==
    \E ln \in Lines :
        /\ Reads(ln, {CmdHello})
        /\ Reply(ln, [book |-> data, out |-> MsgHowCanIHelp])
        /\ hist' = NoHist

DoAdd ==
    \E ln \in Lines :
        /\ Reads(ln, {CmdAdd})
        /\ Reply(ln, add_contact(Args(ln), data))
        /\ hist' = IF hist.only /\ Len(Args(ln)) >= 2 /\ Phone(Args(ln)[2]).raised = ""
                   THEN [hist EXCEPT !.log = Append(@, <<Args(ln)[1], Args(ln)[2]>>)]
                   ELSE NoHist

DoChange ==
    \E ln \in Lines :
        /\ Reads(ln, {CmdChange})
        /\ Reply(ln, change_contact(Args(ln), data))
        /\ hist' = NoHist

DoPhone ==
    \E ln \in Lines :
        /\ Reads(ln, {CmdPhone})
        /\ Reply(ln, show_phone(Args(ln), data))
        /\ hist' = NoHist

DoAll ==
    \E ln \in Lines :
        /\ Reads(ln, {CmdAll})
        /\ Reply(ln, show_all(Args(ln), data))
        /\ hist' = NoHist

DoAddBirthday ==
    \E ln \in Lines :
        /\ Reads(ln, {CmdAddBirthday})
        /\ Reply(ln, add_birthday(Args(ln), data))
        /\ hist' = NoHist

DoShowBirthday ==
    \E ln \in Lines :
        /\ Reads(ln, {CmdShowBirthday})
        /\ Reply(ln, show_birthday(Args(ln), data))
        /\ hist' = NoHist

DoBirthdays ==
    \E ln \in Lines, tdy \in SessionTodays :
        /\ Reads(ln, {CmdBirthdays})
        /\ Reply(ln, birthdays(Args(ln), data, tdy))
        /\ hist' = NoHist

DoInvalid ==
    \E ln \in Lines :
        /\ Reads(ln, {Command(ln)} \ {CmdClose, CmdExit, CmdHello, CmdAdd, CmdChange,
                                      CmdPhone, CmdAll, CmdAddBirthday, CmdShowBirthday,
                                      CmdBirthdays})
        /\ Reply(ln, [book |-> data, out |-> MsgInvalidCommand])
        /\ hist' = NoHist

\* KeyboardInterrupt or EOFError while input() waits
Interrupt ==
    /\ pc = "running"
    /\ out' = MsgGoodByeNl
    /\ saved' = <<data>>
    /\ pc' = "exited"
    /\ hist' = NoHist
    /\ UNCHANGED <<data, line, today, upcoming, raw, made>>

Next ==
    \/ ReadUnparsable
    \/ DoExit
    \/ DoHello
    \/ DoAdd
    \/ DoChange
    \/ DoPhone
    \/ DoAll
    \/ DoAddBirthday
    \/ DoShowBirthday
    \/ DoBirthdays
    \/ DoInvalid
    \/ Interrupt

Spec == Init /\ [][Next]_vars

----------------------------------------------------------------------------
(* The ledger driven through its operations directly *)

ApiNames == Names

\* records a caller can build before handing them to add_record
ApiRecords ==
    {Record(n) : n \in ApiNames}
      \cup {add_phone(Record(n), p).value : n \in ApiNames, p \in ValidPhones}
      \cup {add_birthday_rec(Record(n), DateMarch).value : n \in ApiNames}

ApiAddArgs ==
    {<<n>> : n \in ApiNames} \cup {<<n, p>> : n \in ApiNames, p \in PhoneWords \cup {<<>>}}

ApiChangeArgs == {<<n, p, q>> : n \in ApiNames, p \in ValidPhones, q \in PhoneWords}

ApiBirthdayArgs == {<<n, d>> : n \in ApiNames, d \in {DateLeapDay, DateNoSuchDay}}

ApiResult(r) ==
    /\ TotalPhones(r.book) <= MaxPhones
    /\ data' = r.book
    /\ out' = r.out
    /\ hist' = NoHist
    /\ UNCHANGED <<pc, line, saved, today, upcoming, raw, made>>

ApiAddRecord ==
    \E record \in ApiRecords :
        /\ pc = "running"
        /\ ApiResult([book |-> add_record(data, record), out |-> <<>>])

\* a KeyError of delete reaches the caller and leaves the ledger as it was
ApiDelete ==
    \E name \in ApiNames :
        /\ pc = "running"
        /\ LET r == delete(data, name) IN
           ApiResult([book |-> IF r.raised = "" THEN r.value ELSE data,
                      out  |-> IF r.raised = "" THEN <<>> ELSE r.value])

ApiAddContact ==
    \E args \in ApiAddArgs :
        /\ pc = "running"
        /\ ApiResult(add_contact(args, data))

ApiChangeContact ==
    \E args \in ApiChangeArgs :
        /\ pc = "running"
        /\ ApiResult(change_contact(args, data))

ApiAddBirthday ==
    \E args \in ApiBirthdayArgs :
        /\ pc = "running"
        /\ ApiResult(add_birthday(args, data))

NextLedger ==
    \/ ApiAddRecord
    \/ ApiDelete
    \/ ApiAddContact
    \/ ApiChangeContact
    \/ ApiAddBirthday

SpecLedger == Init /\ [][NextLedger]_vars

----------------------------------------------------------------------------
(* The birthday query over ledgers and reference dates *)

BirthdayWords ==
    {<<"2","9",".","0","2",".","2","0","0","0">>,
     <<"0","2",".","0","3",".","1","9","9","0">>,
     <<"0","3",".","0","3",".","1","9","9","1">>,
     <<"0","2",".","0","1",".","1","9","8","5">>,
     <<"3","1",".","1","2",".","1","9","9","9">>}

QueryNames == {NameBob, NameAl, NameEve}

\* the records add_birthday can leave behind for one name
QueryEntries ==
    {[key |-> n, rec |-> Record(n)] : n \in QueryNames}
      \cup {[key |-> n, rec |-> add_birthday_rec(Record(n), w).value] :
                n \in QueryNames, w \in BirthdayWords}

Ledgers ==
    UNION {{b \in [1..k -> QueryEntries] :
                \A i, j \in 1..k : i # j => b[i].key # b[j].key} : k \in 0..MaxRecords}

TodayStarts == {Date(2023, 2, 20), Date(2024, 2, 20), Date(2024, 12, 20)}

InitBirthdays ==
    /\ data \in Ledgers
    /\ today \in TodayStarts
    /\ upcoming = NotRun
    /\ pc = "running"
    /\ line = <<>>
    /\ out = <<>>
    /\ saved = <<>>
    /\ hist = NoHist
    /\ raw = <<>>
    /\ made = NotMade

\* the calendar moves on to the next day
Tick ==
    /\ \E s \in TodayStarts : Ordinal(today) - Ordinal(s) \in 0..(TodaySpan - 1)
    /\ today' = NextDay(today)
    /\ upcoming' = NotRun
    /\ UNCHANGED <<data, pc, line, out, saved, hist, raw, made>>

Query ==
    /\ ~upcoming.ran
    /\ upcoming' = [ran |-> TRUE, res |-> get_upcoming_birthdays(data, today)]
    /\ UNCHANGED <<data, pc, line, out, saved, today, hist, raw, made>>

NextBirthdays ==
    \/ Tick
    \/ Query

SpecBirthdays == InitBirthdays /\ [][NextBirthdays]_vars

----------------------------------------------------------------------------
(* The Phone constructor over input strings *)

Pad(n) == [i \in 1..n |-> " "]

DigitRun(k) == [i \in 1..k |-> AsciiDigits[(i % 10) + 1]]

OddChars == {"a", " ", "-", ArabicIndicThree}

PhoneBodies ==
    {<<>>}
      \cup {DigitRun(k) : k \in 9..11}
      \cup UNION {{[DigitRun(k) EXCEPT ![i] = c] : i \in 1..k, c \in OddChars} : k \in 9..11}

PhoneInputs == {Pad(l) \o b \o Pad(r) : l \in 0..MaxPad, r \in 0..MaxPad, b \in PhoneBodies}

InitPhone ==
    /\ raw \in PhoneInputs
    /\ made = NotMade
    /\ data = <<>>
    /\ pc = "running"
    /\ line = <<>>
    /\ out = <<>>
    /\ saved = <<>>
    /\ today = Date(2024, 1, 1)
    /\ upcoming = NotRun
    /\ hist = NoHist

Construct ==
    /\ ~made.done
    /\ made' = [done |-> TRUE, res |-> Phone(raw)]
    /\ UNCHANGED <<data, pc, line, out, saved, today, upcoming, hist, raw>>

NextPhone == Construct

SpecPhone == InitPhone /\ [][NextPhone]_vars

----------------------------------------------------------------------------
(* Properties *)

\* the occurrence of a birthday for a reference date: its month and day in
\* the reference year, moved to the next year exactly when that day lies
\* strictly before the reference date
Occurrence(b, tdy) ==
    IF b.m < tdy.m \/ (b.m = tdy.m /\ b.d < tdy.d)
    THEN Date(tdy.y + 1, b.m, b.d)
    ELSE Date(tdy.y, b.m, b.d)

Qualifies(rec, tdy) ==
    /\ rec.birthday # <<>>
    /\ Ordinal(Occurrence(rec.birthday[1], tdy)) - Ordinal(tdy) \in 0..6

EntriesFor(name) ==
    Cardinality({i \in 1..Len(upcoming.res.value) : upcoming.res.value[i].name = name})

\* C1: for every ledger and reference date the query emits an entry for a
\* record iff the record has a birthday whose occurrence is 0..6 days after
\* today; a record without a birthday is never emitted and a qualifying
\* record is emitted exactly once.
C1_EmitsExactlyTheWindow ==
    upcoming.ran =>
        /\ upcoming.res.raised = ""
        /\ \A i \in 1..Len(data) :
              EntriesFor(data[i].rec.name) = IF Qualifies(data[i].rec, today) THEN 1 ELSE 0
        /\ Len(upcoming.res.value) =
              Cardinality({i \in 1..Len(data) : Qualifies(data[i].rec, today)})

RecordNamed(name) == data[CHOOSE i \in 1..Len(data) : data[i].rec.name = name].rec

Shifted(occ) ==
    IF weekday(occ) = 5 THEN AddDays(occ, 2)
    ELSE IF weekday(occ) = 6 THEN AddDays(occ, 1)
    ELSE occ

\* C2: every emitted congratulation date is the occurrence + 2 days for a
\* Saturday, + 1 day for a Sunday and the occurrence itself otherwise; it is
\* never a Saturday or Sunday, never before the occurrence and at most 8
\* days after today.
C2_CongratulationDate ==
    (upcoming.ran /\ upcoming.res.raised = "") =>
        \A i \in 1..Len(upcoming.res.value) :
            LET e == upcoming.res.value[i]
                occ == Occurrence(RecordNamed(e.name).birthday[1], today)
                c == Shifted(occ)
            IN /\ e.congratulation_date = strftime(c)
               /\ weekday(c) \notin {5, 6}
               /\ Ordinal(c) >= Ordinal(occ)
               /\ Ordinal(c) - Ordinal(today) <= 8

\* C2 witness: a Saturday birthday six days ahead is emitted with a
\* congratulation date eight days after today.
C2_Witness ==
    /\ upcoming.ran
    /\ upcoming.res.raised = ""
    /\ \E i \in 1..Len(upcoming.res.value) :
          /\ upcoming.res.value[i].congratulation_date = strftime(AddDays(today, 8))
          /\ weekday(Occurrence(RecordNamed(upcoming.res.value[i].name).birthday[1], today)) = 5

\* the phones given for a name by the add commands issued so far, in order
GivenFor(name) ==
    LET mine == SelectSeq(hist.log, LAMBDA e : e[1] = name)
    IN [i \in 1..Len(mine) |-> mine[i][2]]

\* C3: after any sequence of add commands with valid phones the ledger holds
\* exactly one record per distinct name used, and its phones are exactly
\* the phones given for that name, in the order of the commands.
C3_OneRecordPerName ==
    hist.only =>
        /\ \A i, j \in 1..Len(data) : i # j => data[i].rec.name # data[j].rec.name
        /\ {data[i].rec.name : i \in 1..Len(data)} = {hist.log[k][1] : k \in 1..Len(hist.log)}
        /\ \A i \in 1..Len(data) : data[i].rec.phones = GivenFor(data[i].rec.name)

\* C3 witness: two add commands for one name with different phones have
\* been handled and the one record holds both.
C3_Witness ==
    /\ hist.only
    /\ Len(hist.log) = 2
    /\ hist.log[1][1] = hist.log[2][1]
    /\ hist.log[1][2] # hist.log[2][2]
    /\ Len(data) = 1
    /\ data[1].rec.phones = <<hist.log[1][2], hist.log[2][2]>>

\* C4: the session loop never ends because of an exception raised while
\* one input line is handled.
C4_NeverCrashes == pc # "crashed"

\* a step of the loop that handled the line ln and went on
Handled(ln) == pc = "running" /\ pc' = "running" /\ line' = ln

TooFew(ln) ==
    \/ Command(ln) = CmdAdd /\ Len(Args(ln)) < 2
    \/ Command(ln) = CmdChange /\ Len(Args(ln)) < 3
    \/ Command(ln) = CmdAddBirthday /\ Len(Args(ln)) < 2
    \/ Command(ln) \in {CmdPhone, CmdShowBirthday} /\ Len(Args(ln)) = 0

GuidanceMessages == {MsgProvideChange, MsgProvideName, MsgProvideBirthday, MsgInvalidFormat}

\* C5: a handler called with fewer arguments than it requires returns an
\* invalid-arguments guidance message and leaves the ledger unchanged.
C5_TooFewArguments ==
    [][\A ln \in Lines :
          (Handled(ln) /\ TooFew(ln)) => (out' \in GuidanceMessages /\ data' = data)]_vars

\* a change command for an existing contact that has no phone equal to old
MissingOld(ln) ==
    /\ Command(ln) = CmdChange
    /\ Len(Args(ln)) >= 3
    /\ Args(ln)[1] \in Keys(data)
    /\ \A i \in 1..Len(data) :
          data[i].key = Args(ln)[1] =>
              \A k \in 1..Len(data[i].rec.phones) : data[i].rec.phones[k] # Args(ln)[2]

\* C6: change_contact for an existing contact without a phone equal to old
\* returns "Phone <old> not found for contact <name>." and leaves every
\* record unchanged, whatever the new number is.
C6_ChangeMissingPhone ==
    [][\A ln \in Lines :
          (Handled(ln) /\ MissingOld(ln)) =>
              /\ out' = MsgPhone \o Args(ln)[2] \o MsgNotFoundFor \o Args(ln)[1] \o MsgDot
              /\ data' = data]_vars

\* C6 witness: a change command with a missing old phone and a malformed
\* new phone was answered with the not-found message for an existing contact
\* that holds another phone.
C6_Witness ==
    /\ pc = "running"
    /\ line \in Lines
    /\ Parsed[line].raised = ""
    /\ MissingOld(line)
    /\ Args(line)[3] = PhoneShort
    /\ out = MsgPhone \o Args(line)[2] \o MsgNotFoundFor \o Args(line)[1] \o MsgDot
    /\ \E i \in 1..Len(data) : data[i].key = Args(line)[1] /\ data[i].rec.phones # <<>>

HasLeapDay == \E i \in 1..Len(data) :
    data[i].rec.birthday # <<>> /\ data[i].rec.birthday[1].m = 2 /\ data[i].rec.birthday[1].d = 29

\* C7: with a record whose birthday is 29 February the query still returns
\* its result sequence for every reference date.
C7_LeapDayHandled ==
    (upcoming.ran /\ HasLeapDay) => upcoming.res.raised = ""

\* C8: constructing a phone from s succeeds iff s trimmed has length 10 and
\* only ASCII digits; the stored value is then the trimmed string, and
\* every other input fails with "Incorrect phone number format.".
C8_PhoneAcceptsTenAsciiDigits ==
    made.done =>
        LET t == strip(raw)
            good == Len(t) = 10 /\ \A i \in 1..Len(t) : t[i] \in Range(AsciiDigits)
        IN /\ (made.res.raised = "") <=> good
           /\ good => made.res.value = t
           /\ ~good => (made.res.raised = "ValueError" /\ made.res.value = MsgIncorrectPhone)

\* C9: every key of the ledger equals the raw name of the record stored
\* under it, and no two entries hold records with the same name.
C9_KeyIsName ==
    /\ \A i \in 1..Len(data) : data[i].key = data[i].rec.name
    /\ \A i, j \in 1..Len(data) : i # j => data[i].rec.name # data[j].rec.name

\* C9 witness: the ledger holds two records, one of them with a phone and a
\* birthday, after a record was deleted or replaced.
C9_Witness ==
    /\ Len(data) = 2
    /\ data[1].key = NameAl
    /\ data[2].key = NameBob
    /\ data[2].rec.phones # <<>>
    /\ data[2].rec.birthday # <<>>

\* C10: whenever add_contact returns "Incorrect phone number format." the
\* ledger is unchanged by the call.
C10_FailedAddLeavesLedger ==
    [][\A ln \in Lines :
          (Handled(ln) /\ Command(ln) = CmdAdd /\ out' = MsgIncorrectPhone) => data' = data]_vars

====
